---- MODULE Spec2Model ----
(***************************************************************************)
(* Edit history, edit orchestration, session persistence and object URLs   *)
(* of the App component (src/unnamed/part_000) and the response classifier *)
(* of src/services/geminiService.ts.                                       *)
(*                                                                         *)
(* A File is modelled by its content: img is the identity of the picture   *)
(* (uploads and generated images get fresh identities), thumb says whether *)
(* the content went through the lossy thumbnail encoder.  Indices are the  *)
(* 0-based indices of the source; history[i] of the source is              *)
(* history[i + 1] here.  displayHotspot is set and cleared together with   *)
(* editHotspot in every handler and is folded into it; crop, aspect, zoom, *)
(* pan and isComparing are view-only and are left out.                     *)
(***************************************************************************)
EXTENDS Integers, Sequences, FiniteSets, TLC

VARIABLES
    history,         \* useState<File[]>            part_000:122
    historyIndex,    \* useState<number>            part_000:123
    prompt,          \* useState<string>            part_000:124
    isLoading,       \* useState<boolean>(true)     part_000:125
    error,           \* useState<string | null>     part_000:126
    editHotspot,     \* useState<{x,y} | null>      part_000:127
    activeTab,       \* useState<Tab>               part_000:129
    completedCrop,   \* useState<PixelCrop>         part_000:132 (TRUE: a crop area is selected)
    referenceImage,  \* useState<File | null>       part_000:145
    isStyleLocked,   \* useState<boolean>           part_000:146
    designSeed,      \* useState<number | null>     part_000:147
    pending,         \* generation calls started and not yet answered, each with the closure it captured
    nextId,          \* identity the next new picture gets (restored pictures are 1, 2, ...)
    mounted,         \* FALSE until the mount effects have run
    storage,         \* localStorage item 'oomify-autosave'
    timer,           \* ticks until the armed debounce timeout is due (0: due), NoTimer: none armed
    saves,           \* saveData calls awaiting their thumbnails, oldest first
    uncaught,        \* TRUE once an exception has escaped an effect or saveData
    urls,            \* the object URLs: what the four URL effects created, revoked and put in state
    lastOp           \* the handler or effect that ran last

appVars == <<history, historyIndex, prompt, isLoading, error, editHotspot, activeTab,
             completedCrop, referenceImage, isStyleLocked, designSeed>>
envVars == <<pending, nextId, mounted, storage, timer, saves, uncaught, urls, lastOp>>
vars == <<appVars, envVars>>

---------------------------------------------------------------------------
(* Bounds of the model *)

\* pictures (uploads and generated images) created in one run
MaxImg == 4
\* longest history a persistence run starts from
MaxLen == 7
\* saveData calls that may be waiting for their thumbnails at once
MaxSaves == 2
\* the delay of the debounce timeout, in ticks of the model's time
DelayTicks == 2
\* object URLs created in one run
MaxUrls == 10

(* Program constants *)

MAX_HISTORY_AUTOSAVE == 5
SEED_RANGE == 1000000000

---------------------------------------------------------------------------
(* Values *)

NoFile == [img |-> 0, thumb |-> FALSE]
NewFile(n) == [img |-> n, thumb |-> FALSE]

Null == <<>>                      \* error === null
NoHotspot == "none"
Hotspots == {"h1"}
NoSeed == -1                      \* designSeed === null
NoTimer == -1                     \* no timeout armed (cleared or fired)

Tabs == {"retouch", "try-on", "design", "persona", "adjust", "filters", "crop"}
Prompts == {"", "fix"}
Trim(p) == IF p = " " THEN "" ELSE p

Max(a, b) == IF a >= b THEN a ELSE b
Min(a, b) == IF a <= b THEN a ELSE b

\* Array.prototype.slice(a, b): negative arguments count from the end
SliceNorm(s, k) == IF k < 0 THEN Max(Len(s) + k, 0) ELSE Min(k, Len(s))
JsSlice(s, a, b) == SubSeq(s, SliceNorm(s, a) + 1, SliceNorm(s, b))

---------------------------------------------------------------------------
(* Image codec helpers *)

\* A data URL: ok says whether dataURLtoFile can decode it, file is what it decodes to.
DataUrl(f) == [ok |-> TRUE, file |-> f]
BadUrl == [ok |-> FALSE, file |-> NoFile]

\* dataURLtoFile throws on a URL without a comma, without a MIME type or with a
\* payload atob rejects.
dataURLtoFileThrows(u) == ~u.ok
dataURLtoFile(u) == u.file

\* createImageThumbnail: the picture scaled to at most 512 px and re-encoded as JPEG
\* at quality 0.8, as a data URL.
createImageThumbnail(f) == DataUrl([img |-> f.img, thumb |-> TRUE])


---------------------------------------------------------------------------
(* The stored record *)

Absent == "<absent>"

NoRecord == [kind |-> "none", hasHistory |-> FALSE, history |-> <<>>,
             hasIndex |-> FALSE, historyIndex |-> 0, prompt |-> Absent, activeTab |-> Absent]
\* an item JSON.parse throws on
Garbage == [NoRecord EXCEPT !.kind = "garbage"]
\* JSON.stringify({history, historyIndex, prompt, activeTab})
Record(h, i, p, t) == [kind |-> "json", hasHistory |-> TRUE, history |-> h,
                       hasIndex |-> TRUE, historyIndex |-> i, prompt |-> p, activeTab |-> t]

Thumb(n) == DataUrl([img |-> n, thumb |-> TRUE])

\* What the item can hold when the page is opened: nothing, an item that is not
\* JSON, a record an earlier session saved, and JSON written by something else
\* (a cursor past the end, no cursor, an entry that is no data URL, no history).
SavedRecord == Record(<<Thumb(1), Thumb(2)>>, 1, "fix", "filters")
ForeignRecords ==
    { Record(<<Thumb(1), Thumb(2)>>, 2, "", "retouch"),
      [Record(<<Thumb(1)>>, 0, "", "retouch") EXCEPT !.hasIndex = FALSE],
      Record(<<Thumb(1), BadUrl>>, 0, "", "retouch"),
      [Record(<<>>, 0, "", "retouch") EXCEPT !.hasHistory = FALSE] }
InitRecords == {NoRecord, Garbage, SavedRecord} \cup ForeignRecords

---------------------------------------------------------------------------
(* The component's state as one value, so that a handler is a function of it *)

App == [history |-> history, historyIndex |-> historyIndex, prompt |-> prompt,
        isLoading |-> isLoading, error |-> error, editHotspot |-> editHotspot,
        activeTab |-> activeTab, completedCrop |-> completedCrop,
        referenceImage |-> referenceImage, isStyleLocked |-> isStyleLocked,
        designSeed |-> designSeed]

SetApp(s) ==
    /\ history' = s.history
    /\ historyIndex' = s.historyIndex
    /\ prompt' = s.prompt
    /\ isLoading' = s.isLoading
    /\ error' = s.error
    /\ editHotspot' = s.editHotspot
    /\ activeTab' = s.activeTab
    /\ completedCrop' = s.completedCrop
    /\ referenceImage' = s.referenceImage
    /\ isStyleLocked' = s.isStyleLocked
    /\ designSeed' = s.designSeed

InitialApp == [history |-> <<>>, historyIndex |-> -1, prompt |-> "", isLoading |-> TRUE,
               error |-> Null, editHotspot |-> NoHotspot, activeTab |-> "retouch",
               completedCrop |-> FALSE, referenceImage |-> NoFile,
               isStyleLocked |-> FALSE, designSeed |-> NoSeed]

\* history[historyIndex] ?? null
currentImageOf(s) ==
    IF s.historyIndex >= 0 /\ s.historyIndex < Len(s.history)
    THEN s.history[s.historyIndex + 1] ELSE NoFile
\* history[0] ?? null
originalImageOf(s) == IF Len(s.history) > 0 THEN s.history[1] ELSE NoFile

currentImage == currentImageOf(App)
originalImage == originalImageOf(App)

canUndo(s) == s.historyIndex > 0
canRedo(s) == s.historyIndex < Len(s.history) - 1

---------------------------------------------------------------------------
(* Edit History Store: the handlers *)

\* Faulty variants of the history handlers; each of them breaks a property of the
\* Edit History Store stated below.
addImageToHistory_CursorPastEnd(s, h, i, newImageFile) ==
    LET newHistory == Append(JsSlice(h, 0, i + 1), newImageFile)
    IN [s EXCEPT !.history = newHistory, !.historyIndex = Len(newHistory),
                 !.completedCrop = FALSE]

addImageToHistory_DropsFirst(s, h, i, newImageFile) ==
    LET newHistory == Append(JsSlice(h, 1, i + 1), newImageFile)
    IN [s EXCEPT !.history = newHistory, !.historyIndex = Len(newHistory) - 1,
                 !.completedCrop = FALSE]

handleHistoryStepClick_NoLowerBound(s, index) ==
    IF index < Len(s.history)
    THEN [s EXCEPT !.historyIndex = index, !.editHotspot = NoHotspot,
                   !.completedCrop = FALSE]
    ELSE s

handleRedo_PastEnd(s) ==
    [s EXCEPT !.historyIndex = s.historyIndex + 1, !.editHotspot = NoHotspot,
              !.completedCrop = FALSE]

handleReset_Truncates(s) ==
    IF Len(s.history) > 0
    THEN [s EXCEPT !.history = <<s.history[1]>>, !.historyIndex = 0, !.error = Null,
                   !.editHotspot = NoHotspot, !.completedCrop = FALSE]
    ELSE s

handleUploadNew_KeepsCursor(s) ==
    [s EXCEPT !.history = <<>>, !.error = Null, !.prompt = "",
              !.editHotspot = NoHotspot, !.isStyleLocked = FALSE, !.designSeed = NoSeed]

addImageToHistory(s, h, i, newImageFile) ==
    LET newHistory == Append(JsSlice(h, 0, i + 1), newImageFile)
    IN [s EXCEPT !.history = newHistory,
                 !.historyIndex = Len(newHistory) - 1,
                 !.completedCrop = FALSE]

handleImageUpload(s, file) ==
    [s EXCEPT !.error = Null, !.history = <<file>>, !.historyIndex = 0,
              !.editHotspot = NoHotspot, !.activeTab = "retouch",
              !.completedCrop = FALSE, !.referenceImage = NoFile,
              !.isStyleLocked = FALSE, !.designSeed = NoSeed]

handleHistoryStepClick(s, index) ==
    IF index >= 0 /\ index < Len(s.history)
    THEN [s EXCEPT !.historyIndex = index, !.editHotspot = NoHotspot,
                   !.completedCrop = FALSE]
    ELSE s

handleUndo(s) == IF canUndo(s) THEN handleHistoryStepClick(s, s.historyIndex - 1) ELSE s

handleRedo(s) == IF canRedo(s) THEN handleHistoryStepClick(s, s.historyIndex + 1) ELSE s

handleReset(s) ==
    IF Len(s.history) > 0
    THEN [handleHistoryStepClick(s, 0) EXCEPT !.error = Null]
    ELSE s

\* Faulty variant: Upload New also ends the loading state.
handleUploadNew_ClearsLoading(s) ==
    [s EXCEPT !.history = <<>>, !.historyIndex = -1, !.error = Null, !.prompt = "",
              !.editHotspot = NoHotspot, !.isStyleLocked = FALSE, !.designSeed = NoSeed,
              !.isLoading = FALSE]

handleUploadNew(s) ==
    [s EXCEPT !.history = <<>>, !.historyIndex = -1, !.error = Null, !.prompt = "",
              !.editHotspot = NoHotspot, !.isStyleLocked = FALSE, !.designSeed = NoSeed]

---------------------------------------------------------------------------
(* The generation collaborator's answer and its classification *)

\* rejected: the call itself failed (network, file read); otherwise the response's
\* promptFeedback.blockReason, the first candidate's image part ("invalid": a part
\* dataURLtoFile cannot decode), its finishReason ("" when absent) and whether the
\* response carries text.
Responses ==
    { [rejected |-> TRUE, blockReason |-> FALSE, image |-> "none", finishReason |-> "",
       text |-> FALSE] }
    \cup
    [rejected : {FALSE}, blockReason : BOOLEAN, image : {"none", "valid", "invalid"},
     finishReason : {"", "STOP", "SAFETY"}, text : BOOLEAN]

Returned(u) == [ok |-> TRUE, url |-> u, why |-> ""]
Thrown(why) == [ok |-> FALSE, url |-> BadUrl, why |-> why]

\* Faulty variant: the image part is looked for before the block reason.
handleApiResponse_ImageFirst(resp, f) ==
    IF resp.image # "none"
    THEN Returned(IF resp.image = "valid" THEN DataUrl(f) ELSE BadUrl)
    ELSE IF resp.blockReason THEN Thrown("blocked")
    ELSE IF resp.finishReason # "" /\ resp.finishReason # "STOP"
         THEN Thrown("abnormal-stop")
    ELSE IF resp.text THEN Thrown("no-image, with the model's text")
    ELSE Thrown("no-image")

\* handleApiResponse: the data URL of the image part, or the Error thrown.
handleApiResponse(resp, f) ==
    IF resp.blockReason THEN Thrown("blocked")
    ELSE IF resp.image # "none"
         THEN Returned(IF resp.image = "valid" THEN DataUrl(f) ELSE BadUrl)
    ELSE IF resp.finishReason # "" /\ resp.finishReason # "STOP"
         THEN Thrown("abnormal-stop")
    ELSE IF resp.text THEN Thrown("no-image, with the model's text")
    ELSE Thrown("no-image")

\* generateEditedImage and the other five generate functions: await the call, then
\* classify the response.
generate(resp, f) == IF resp.rejected THEN Thrown("call failed") ELSE handleApiResponse(resp, f)

---------------------------------------------------------------------------
(* Edit Orchestrator: the part of each handler that runs before the await.   *)
(* A handler either sets an error and returns, or sets isLoading and starts  *)
(* the generation call.                                                      *)

Reject(s, msg) == [s EXCEPT !.error = <<msg>>]
Begin(s) == [s EXCEPT !.isLoading = TRUE, !.error = Null]

\* the handler started its generation call
Started(s, t) == t.isLoading /\ t.error = Null

\* Faulty variant: the hotspot guard is missing.
handleGenerate_NoHotspotGuard(s) ==
    IF currentImageOf(s) = NoFile THEN Reject(s, "No image loaded to edit.")
    ELSE IF Trim(s.prompt) = "" THEN Reject(s, "Please enter a description for your edit.")
    ELSE Begin(s)

handleGenerate(s) ==
    IF currentImageOf(s) = NoFile THEN Reject(s, "No image loaded to edit.")
    ELSE IF Trim(s.prompt) = "" THEN Reject(s, "Please enter a description for your edit.")
    ELSE IF s.editHotspot = NoHotspot
         THEN Reject(s, "Please click on the image to select an area to edit.")
    ELSE Begin(s)

handleApplyFilter(s) ==
    IF currentImageOf(s) = NoFile THEN Reject(s, "No image loaded to apply a filter to.")
    ELSE Begin(s)

handleApplyAdjustment(s) ==
    IF currentImageOf(s) = NoFile THEN Reject(s, "No image loaded to apply an adjustment to.")
    ELSE Begin(s)

handleApplyTryOn(s) ==
    IF currentImageOf(s) = NoFile THEN Reject(s, "No image loaded to edit.")
    ELSE IF s.editHotspot = NoHotspot
         THEN Reject(s, "Please click on the clothing in the image to select an area to replace.")
    ELSE Begin(s)

\* if (designSeed): null and 0 are both falsy
Truthy(seed) == seed # NoSeed /\ seed # 0

\* seedToUse of handleApplyStyle; newSeed is Math.floor(Math.random() * 1_000_000_000)
seedToUse(s, newSeed) ==
    IF s.isStyleLocked
    THEN (IF Truthy(s.designSeed) THEN s.designSeed ELSE newSeed)
    ELSE NoSeed

\* Faulty variant: an unlocked request leaves the stored seed.
handleApplyStyle_KeepsSeedUnlocked(s, newSeed) ==
    IF currentImageOf(s) = NoFile THEN Reject(s, "No target image loaded.")
    ELSE IF s.referenceImage = NoFile THEN Reject(s, "Please upload a style reference image.")
    ELSE LET seeded == IF s.isStyleLocked
                       THEN (IF Truthy(s.designSeed) THEN s
                             ELSE [s EXCEPT !.designSeed = newSeed])
                       ELSE s
         IN Begin(seeded)

handleApplyStyle(s, newSeed) ==
    IF currentImageOf(s) = NoFile THEN Reject(s, "No target image loaded.")
    ELSE IF s.referenceImage = NoFile THEN Reject(s, "Please upload a style reference image.")
    ELSE LET seeded == IF s.isStyleLocked
                       THEN (IF Truthy(s.designSeed) THEN s
                             ELSE [s EXCEPT !.designSeed = newSeed])
                       ELSE [s EXCEPT !.designSeed = NoSeed]
         IN Begin(seeded)

\* generateStyledImage: if (seed) config.seed = seed
configSeed(seed) == IF Truthy(seed) THEN seed ELSE NoSeed

handleGeneratePersona(s) ==
    IF currentImageOf(s) = NoFile THEN Reject(s, "No identity image loaded.")
    ELSE Begin(s)

\* Faulty variant: the stored seed survives the change of the reference image.
handleSetReferenceImage_KeepsSeed(s, file) == [s EXCEPT !.referenceImage = file]

handleSetReferenceImage(s, file) == [s EXCEPT !.referenceImage = file, !.designSeed = NoSeed]

\* handleApplyCrop is synchronous: canvas.toDataURL always decodes. ctx is FALSE
\* when canvas.getContext('2d') returns null.
handleApplyCrop(s, ctx, newImageFile) ==
    IF ~s.completedCrop THEN Reject(s, "Please select an area to crop.")
    ELSE IF ~ctx THEN Reject(s, "Could not process the crop.")
    ELSE addImageToHistory(s, s.history, s.historyIndex, newImageFile)

Kinds == {"retouch", "filter", "adjustment", "try-on", "style", "persona"}

FailurePrefix(kind) ==
    CASE kind = "retouch" -> "Failed to generate the image."
      [] kind = "filter" -> "Failed to apply the filter."
      [] kind = "adjustment" -> "Failed to apply the adjustment."
      [] kind = "try-on" -> "Failed to generate the image."
      [] kind = "style" -> "Failed to apply the style."
      [] kind = "persona" -> "Failed to generate the persona image."

ClearsHotspot(kind) == kind \in {"retouch", "try-on"}

\* What a started handler holds while it awaits: addImageToHistory of the render
\* it was created in, which reads that render's history and historyIndex.
Request(kind, s, seed) ==
    [kind |-> kind, history |-> s.history, historyIndex |-> s.historyIndex, seed |-> seed]

\* Faulty variant: the catch block without the finally block.
continuation_NoFinally(s, req, resp, f) ==
    LET r == generate(resp, f) IN
    IF r.ok /\ ~dataURLtoFileThrows(r.url)
    THEN LET added == addImageToHistory(s, req.history, req.historyIndex,
                                        dataURLtoFile(r.url))
         IN [added EXCEPT !.editHotspot =
                              IF ClearsHotspot(req.kind) THEN NoHotspot ELSE @,
                          !.isLoading = FALSE]
    ELSE [s EXCEPT !.error = <<FailurePrefix(req.kind),
                               IF r.ok THEN "undecodable image" ELSE r.why>>]

\* Faulty variant: the selection is cleared in the finally block.
continuation_ClearsHotspotAlways(s, req, resp, f) ==
    LET r == generate(resp, f) IN
    IF r.ok /\ ~dataURLtoFileThrows(r.url)
    THEN LET added == addImageToHistory(s, req.history, req.historyIndex,
                                        dataURLtoFile(r.url))
         IN [added EXCEPT !.editHotspot =
                              IF ClearsHotspot(req.kind) THEN NoHotspot ELSE @,
                          !.isLoading = FALSE]
    ELSE [s EXCEPT !.error = <<FailurePrefix(req.kind),
                               IF r.ok THEN "undecodable image" ELSE r.why>>,
                   !.editHotspot = IF ClearsHotspot(req.kind) THEN NoHotspot ELSE @,
                   !.isLoading = FALSE]

\* The rest of the handler, run when the call is answered: s is the state then,
\* req the request, resp the answer, f the File a decodable answer decodes to.
continuation(s, req, resp, f) ==
    LET r == generate(resp, f) IN
    IF r.ok /\ ~dataURLtoFileThrows(r.url)
    THEN LET added == addImageToHistory(s, req.history, req.historyIndex,
                                        dataURLtoFile(r.url))
         IN [added EXCEPT !.editHotspot =
                              IF ClearsHotspot(req.kind) THEN NoHotspot ELSE @,
                          !.isLoading = FALSE]
    ELSE [s EXCEPT !.error = <<FailurePrefix(req.kind),
                               IF r.ok THEN "undecodable image" ELSE r.why>>,
                   !.isLoading = FALSE]

---------------------------------------------------------------------------
(* Session Persistence Manager *)

\* The restore effect: the state it leaves and what it leaves in storage.
\* A record whose history is an array is decoded entry by entry; one entry that
\* dataURLtoFile throws on aborts the restore before any setter runs.
restoreThrows(rec) ==
    \/ rec.kind = "garbage"
    \/ rec.kind = "json" /\ rec.hasHistory
       /\ \E k \in 1..Len(rec.history) : dataURLtoFileThrows(rec.history[k])

\* Faulty variant of the restore effect: the setters run although an entry failed
\* to decode.
restoreApp_Partial(s, rec) ==
    LET loaded == IF rec.kind = "json" /\ rec.hasHistory
                  THEN [s EXCEPT !.history = [k \in 1..Len(rec.history) |-> dataURLtoFile(rec.history[k])],
                                 !.historyIndex = IF rec.hasIndex THEN rec.historyIndex ELSE -1]
                  ELSE s
    IN [loaded EXCEPT !.isLoading = FALSE]

restoreApp(s, rec) ==
    LET loaded == IF rec.kind = "json" /\ rec.hasHistory /\ ~restoreThrows(rec)
                  THEN [s EXCEPT !.history = [k \in 1..Len(rec.history) |-> dataURLtoFile(rec.history[k])],
                                 !.historyIndex = IF rec.hasIndex THEN rec.historyIndex ELSE -1,
                                 !.prompt = IF rec.prompt = Absent THEN "" ELSE rec.prompt,
                                 !.activeTab = IF rec.activeTab = Absent THEN "retouch"
                                               ELSE rec.activeTab]
                  ELSE s
    IN [loaded EXCEPT !.isLoading = FALSE]

\* the catch block logs and removes the item
restoreStorage(rec) == IF restoreThrows(rec) THEN NoRecord ELSE rec

\* JSON.parse and the decoding are inside the try block; the catch block rethrows nothing
restoreEscapes(rec) == FALSE

\* Faulty variants of saveData; each of them breaks a property of the Session
\* Persistence stated below.
historyIndexToSave_NoFloor(h, i) == i - (Len(h) - Len(JsSlice(h, -MAX_HISTORY_AUTOSAVE, Len(h))))

saveDataEnd_KeepsOnQuota(store, job, outcome) ==
    IF outcome = "written"
    THEN Record([k \in 1..Len(job.history) |-> createImageThumbnail(job.history[k])],
                job.historyIndex, job.prompt, job.activeTab)
    ELSE store

\* Faulty variant: the cursor is saved as it is.
historyIndexToSave_NoRemap(h, i) == Max(0, i)

\* Faulty variant: every save drops the oldest entry it is given.
historyToSave_DropsOldest(h) == JsSlice(h, IF Len(h) > 1 THEN 1 ELSE 0, Len(h))

\* saveData up to its await
historyToSave(h) == JsSlice(h, -MAX_HISTORY_AUTOSAVE, Len(h))
truncatedCount(h) == Len(h) - Len(historyToSave(h))
historyIndexToSave(h, i) == Max(0, i - truncatedCount(h))

\* what a saveData call holds while it awaits its thumbnails
SaveJob(s) ==
    [history |-> historyToSave(s.history),
     historyIndex |-> historyIndexToSave(s.history, s.historyIndex),
     prompt |-> s.prompt, activeTab |-> s.activeTab]

stateToSave(job) ==
    Record([k \in 1..Len(job.history) |-> createImageThumbnail(job.history[k])],
           job.historyIndex, job.prompt, job.activeTab)

\* How the awaited part of a saveData call ends: the record is written, a thumbnail
\* promise rejects, setItem throws a quota DOMException, setItem throws something else.
SaveOutcomes == {"written", "thumbnail failed", "quota exceeded", "write failed"}

saveDataEnd(store, job, outcome) ==
    CASE outcome = "written" -> stateToSave(job)
      [] outcome = "quota exceeded" -> NoRecord
      [] OTHER -> store

\* the await and setItem are inside the try block; the catch block rethrows nothing
saveDataRejects(outcome) == FALSE

---------------------------------------------------------------------------
(* What is on screen: renderContent *)

View(s) ==
    IF s.isLoading /\ Len(s.history) = 0 THEN "spinner"
    ELSE IF s.error # Null THEN "error"
    ELSE IF currentImageOf(s) = NoFile THEN "start"
    ELSE "editor"

view == View(App)
Editor == mounted /\ view = "editor"

\* the loading overlay covers the image while a request is pending
ImageClickable == Editor /\ ~isLoading

RefImages == {[img |-> 101, thumb |-> FALSE], [img |-> 102, thumb |-> FALSE]}
SeedSamples == {0, 1, SEED_RANGE - 1}

---------------------------------------------------------------------------
(* Object URLs: the four effects that create and revoke them *)

NoUrl == 0

\* src: the value of the dependency each effect last ran with; made: the URL (for
\* the history bar, the URLs) the effect created then and its cleanup revokes;
\* state: currentImageUrl, originalImageUrl, referenceImageUrl, historyThumbUrls;
\* owner[u]: the effect that created URL u (URLs are numbered as they are created);
\* revoked: the URLs passed to URL.revokeObjectURL.
NoUrls ==
    [src |-> [cur |-> NoFile, orig |-> NoFile, ref |-> NoFile, thumbs |-> <<>>],
     made |-> [cur |-> NoUrl, orig |-> NoUrl, ref |-> NoUrl, thumbs |-> <<>>],
     state |-> [cur |-> NoUrl, orig |-> NoUrl, ref |-> NoUrl, thumbs |-> <<>>],
     owner |-> <<>>, revoked |-> {}]

Range(q) == {q[k] : k \in 1..Len(q)}

\* the dependencies of the four effects in the state s
UrlDeps(s) ==
    [cur |-> currentImageOf(s), orig |-> originalImageOf(s), ref |-> s.referenceImage,
     thumbs |-> s.history]

\* the URLs the effects create when they run for the state s
UrlsToCreate(u, s) ==
    LET d == UrlDeps(s) IN
      (IF d.cur # u.src.cur /\ d.cur # NoFile THEN <<"cur">> ELSE <<>>)
      \o (IF d.orig # u.src.orig /\ d.orig # NoFile THEN <<"orig">> ELSE <<>>)
      \o (IF d.ref # u.src.ref /\ d.ref # NoFile THEN <<"ref">> ELSE <<>>)
      \o (IF d.thumbs # u.src.thumbs THEN [k \in 1..Len(d.thumbs) |-> "thumb"] ELSE <<>>)

\* Faulty variant: the effects return no cleanup function.
RunUrlEffects_NoCleanup(u, s) ==
    LET d == UrlDeps(s)
        new == UrlsToCreate(u, s)
        base == Len(u.owner)
        first(x) == base + (CHOOSE k \in 1..Len(new) : new[k] = x /\ \A j \in 1..(k - 1) : new[j] # x)
        one(x) == IF d[x] = u.src[x] THEN u.made[x]
                  ELSE IF d[x] = NoFile THEN NoUrl ELSE first(x)
        bar == IF d.thumbs = u.src.thumbs THEN u.made.thumbs
               ELSE [k \in 1..Len(d.thumbs) |-> first("thumb") + k - 1]
        made == [cur |-> one("cur"), orig |-> one("orig"), ref |-> one("ref"), thumbs |-> bar]
    IN [src |-> d, made |-> made, state |-> made, owner |-> u.owner \o new,
        revoked |-> u.revoked]

\* The effects of one render: for every effect whose dependency changed, the
\* cleanup of its last run (revoke), then its body (create, set the state).
RunUrlEffects(u, s) ==
    LET d == UrlDeps(s)
        new == UrlsToCreate(u, s)
        base == Len(u.owner)
        first(x) == base + (CHOOSE k \in 1..Len(new) : new[k] = x /\ \A j \in 1..(k - 1) : new[j] # x)
        one(x) == IF d[x] = u.src[x] THEN u.made[x]
                  ELSE IF d[x] = NoFile THEN NoUrl ELSE first(x)
        bar == IF d.thumbs = u.src.thumbs THEN u.made.thumbs
               ELSE [k \in 1..Len(d.thumbs) |-> first("thumb") + k - 1]
        made == [cur |-> one("cur"), orig |-> one("orig"), ref |-> one("ref"), thumbs |-> bar]
        cleaned == {u.made[x] : x \in {y \in {"cur", "orig", "ref"} : d[y] # u.src[y]}}
                   \cup (IF d.thumbs # u.src.thumbs THEN Range(u.made.thumbs) ELSE {})
    IN [src |-> d, made |-> made, state |-> made, owner |-> u.owner \o new,
        revoked |-> u.revoked \cup (cleaned \ {NoUrl})]

\* the cleanups of all four effects, run when the component is torn down
TeardownUrls(u) ==
    [NoUrls EXCEPT !.owner = u.owner,
                   !.revoked = u.revoked
                       \cup ({u.made.cur, u.made.orig, u.made.ref} \ {NoUrl})
                       \cup Range(u.made.thumbs)]

---------------------------------------------------------------------------
(* Initial state and actions *)

Init ==
    /\ history = InitialApp.history
    /\ historyIndex = InitialApp.historyIndex
    /\ prompt = InitialApp.prompt
    /\ isLoading = InitialApp.isLoading
    /\ error = InitialApp.error
    /\ editHotspot = InitialApp.editHotspot
    /\ activeTab = InitialApp.activeTab
    /\ completedCrop = InitialApp.completedCrop
    /\ referenceImage = InitialApp.referenceImage
    /\ isStyleLocked = InitialApp.isStyleLocked
    /\ designSeed = InitialApp.designSeed
    /\ pending = <<>>
    /\ nextId = 1
    /\ mounted = FALSE
    /\ storage \in InitRecords
    /\ timer = NoTimer
    /\ saves = <<>>
    /\ uncaught = FALSE
    /\ urls = NoUrls
    /\ lastOp = "init"

\* Faulty variant: the effect has no cleanup, a timeout already armed stays and
\* fires at its own time.
DebounceEffect_NoCancel(s, setHistoryCalled) ==
    timer' = IF /\ timer = NoTimer
                /\ \/ setHistoryCalled
                   \/ s.historyIndex # historyIndex
                   \/ s.prompt # prompt
                   \/ s.activeTab # activeTab
             THEN DelayTicks ELSE timer

\* The auto-save effect: saveData is re-created, and the timeout re-armed, when
\* history (by identity: every setHistory call), historyIndex, prompt or activeTab
\* changes.
DebounceEffect(s, setHistoryCalled) ==
    timer' = IF \/ setHistoryCalled
                \/ s.historyIndex # historyIndex
                \/ s.prompt # prompt
                \/ s.activeTab # activeTab
             THEN DelayTicks ELSE timer

\* a synchronous handler ran and left the state s
Handled(op, s, setHistoryCalled) ==
    /\ SetApp(s)
    /\ lastOp' = op
    /\ DebounceEffect(s, setHistoryCalled)

\* Faulty variant: the save of the initial render (empty history) runs before the
\* restore effect reads the item.
Mount_SavesFirst ==
    /\ ~mounted
    /\ mounted' = TRUE
    /\ SetApp(restoreApp(App, NoRecord))
    /\ storage' = NoRecord
    /\ timer' = DelayTicks
    /\ lastOp' = "restore"
    /\ nextId' = 1
    /\ uncaught' = uncaught
    /\ UNCHANGED <<pending, saves, urls>>

\* the mount effects: restore, then the auto-save effect arms its first timeout
Mount ==
    /\ ~mounted
    /\ mounted' = TRUE
    /\ SetApp(restoreApp(App, storage))
    /\ storage' = restoreStorage(storage)
    /\ timer' = DelayTicks
    /\ lastOp' = "restore"
    /\ nextId' = Len(restoreApp(App, storage).history) + 1
    /\ uncaught' = (uncaught \/ restoreEscapes(storage))
    /\ UNCHANGED <<pending, saves, urls>>

\* StartScreen's onFileSelect
handleFileSelect ==
    /\ mounted /\ view = "start"
    /\ nextId <= MaxImg
    /\ Handled("load", handleImageUpload(App, NewFile(nextId)), TRUE)
    /\ nextId' = nextId + 1
    /\ UNCHANGED <<pending, mounted, storage, saves, uncaught, urls>>

\* the logo of Header and Footer, and the Upload New button
ClickUploadNew ==
    /\ mounted
    /\ Handled("clear", handleUploadNew(App), TRUE)
    /\ UNCHANGED <<pending, nextId, mounted, storage, saves, uncaught, urls>>

ClickUndo ==
    /\ Editor /\ canUndo(App)
    /\ Handled("undo", handleUndo(App), FALSE)
    /\ UNCHANGED <<pending, nextId, mounted, storage, saves, uncaught, urls>>

ClickRedo ==
    /\ Editor /\ canRedo(App)
    /\ Handled("redo", handleRedo(App), FALSE)
    /\ UNCHANGED <<pending, nextId, mounted, storage, saves, uncaught, urls>>

ClickReset ==
    /\ Editor /\ canUndo(App)
    /\ Handled("reset", handleReset(App), FALSE)
    /\ UNCHANGED <<pending, nextId, mounted, storage, saves, uncaught, urls>>

\* a thumbnail of the history bar, shown for more than one entry
ClickHistoryStep ==
    /\ Editor /\ Len(history) > 1
    /\ \E index \in 0..(Len(history) - 1) :
           Handled("jump", handleHistoryStepClick(App, index), FALSE)
    /\ UNCHANGED <<pending, nextId, mounted, storage, saves, uncaught, urls>>

handleImageClick ==
    /\ ImageClickable /\ activeTab \in {"retouch", "try-on"}
    /\ \E h \in Hotspots : Handled("hotspot", [App EXCEPT !.editHotspot = h], FALSE)
    /\ UNCHANGED <<pending, nextId, mounted, storage, saves, uncaught, urls>>

ClickTab ==
    /\ Editor
    /\ \E tab \in Tabs \ {activeTab} : Handled("tab", [App EXCEPT !.activeTab = tab], FALSE)
    /\ UNCHANGED <<pending, nextId, mounted, storage, saves, uncaught, urls>>

\* the retouch form's input
TypePrompt ==
    /\ Editor /\ activeTab = "retouch" /\ ~isLoading /\ editHotspot # NoHotspot
    /\ \E p \in Prompts \ {prompt} : Handled("prompt", [App EXCEPT !.prompt = p], FALSE)
    /\ UNCHANGED <<pending, nextId, mounted, storage, saves, uncaught, urls>>

\* ReactCrop's onComplete
SelectCrop ==
    /\ ImageClickable /\ activeTab = "crop" /\ ~completedCrop
    /\ Handled("crop area", [App EXCEPT !.completedCrop = TRUE], FALSE)
    /\ UNCHANGED <<pending, nextId, mounted, storage, saves, uncaught, urls>>

\* DesignPanel's file input
ChooseReference ==
    /\ Editor /\ activeTab = "design"
    /\ \E f \in RefImages : Handled("reference", handleSetReferenceImage(App, f), FALSE)
    /\ UNCHANGED <<pending, nextId, mounted, storage, saves, uncaught, urls>>

ToggleStyleLock ==
    /\ Editor /\ activeTab = "design" /\ ~isLoading
    /\ Handled("lock", [App EXCEPT !.isStyleLocked = ~isStyleLocked], FALSE)
    /\ UNCHANGED <<pending, nextId, mounted, storage, saves, uncaught, urls>>

\* the error panel's Try Again button
TryAgain ==
    /\ mounted /\ view = "error"
    /\ Handled("dismiss", [App EXCEPT !.error = Null], FALSE)
    /\ UNCHANGED <<pending, nextId, mounted, storage, saves, uncaught, urls>>

\* an edit handler ran up to its await (or to its early return)
Submitted(kind, s, seed) ==
    /\ SetApp(s)
    /\ pending' = IF Started(App, s) THEN Append(pending, Request(kind, App, seed))
                  ELSE pending
    /\ lastOp' = IF Started(App, s) THEN "submit" ELSE "rejected"
    /\ DebounceEffect(s, FALSE)
    /\ UNCHANGED <<nextId, mounted, storage, saves, uncaught, urls>>

SubmitRetouch ==
    /\ Editor /\ activeTab = "retouch"
    /\ ~(isLoading \/ Trim(prompt) = "" \/ editHotspot = NoHotspot)
    /\ Submitted("retouch", handleGenerate(App), NoSeed)

SubmitTryOn ==
    /\ Editor /\ activeTab = "try-on"
    /\ editHotspot # NoHotspot /\ ~isLoading
    /\ Submitted("try-on", handleApplyTryOn(App), NoSeed)

SubmitStyle ==
    /\ Editor /\ activeTab = "design"
    /\ ~isLoading /\ referenceImage # NoFile
    /\ \E newSeed \in SeedSamples :
           Submitted("style", handleApplyStyle(App, newSeed), seedToUse(App, newSeed))

SubmitPersona ==
    /\ Editor /\ activeTab = "persona" /\ ~isLoading
    /\ Submitted("persona", handleGeneratePersona(App), NoSeed)

SubmitAdjustment ==
    /\ Editor /\ activeTab = "adjust" /\ ~isLoading
    /\ Submitted("adjustment", handleApplyAdjustment(App), NoSeed)

SubmitFilter ==
    /\ Editor /\ activeTab = "filters" /\ ~isLoading
    /\ Submitted("filter", handleApplyFilter(App), NoSeed)

ClickApplyCrop ==
    /\ Editor /\ activeTab = "crop" /\ ~(isLoading \/ ~completedCrop)
    /\ nextId <= MaxImg
    /\ \E ctx \in BOOLEAN :
         LET s == handleApplyCrop(App, ctx, NewFile(nextId)) IN
           /\ Handled(IF ctx THEN "commit" ELSE "rejected", s, ctx)
           /\ nextId' = IF ctx THEN nextId + 1 ELSE nextId
    /\ UNCHANGED <<pending, mounted, storage, saves, uncaught, urls>>

Without(q, k) == [j \in 1..(Len(q) - 1) |-> IF j < k THEN q[j] ELSE q[j + 1]]

\* the generation call of a pending request is answered and its handler resumes
Respond ==
    /\ \E k \in 1..Len(pending), resp \in Responses :
         LET s == continuation(App, pending[k], resp, NewFile(nextId))
             committed == s.error = error /\ s.history # history
             ok == generate(resp, NewFile(nextId)).ok
                   /\ ~dataURLtoFileThrows(generate(resp, NewFile(nextId)).url)
         IN /\ ok => nextId <= MaxImg
            /\ SetApp(s)
            /\ pending' = Without(pending, k)
            /\ nextId' = IF ok THEN nextId + 1 ELSE nextId
            /\ lastOp' = IF ok THEN "commit" ELSE "failed"
            /\ DebounceEffect(s, ok)
    /\ UNCHANGED <<mounted, storage, saves, uncaught, urls>>

Next ==
    \/ Mount
    \/ handleFileSelect
    \/ ClickUploadNew
    \/ ClickUndo
    \/ ClickRedo
    \/ ClickReset
    \/ ClickHistoryStep
    \/ handleImageClick
    \/ ClickTab
    \/ TypePrompt
    \/ SelectCrop
    \/ TryAgain
    \/ SubmitRetouch
    \/ SubmitTryOn
    \/ SubmitPersona
    \/ SubmitAdjustment
    \/ SubmitFilter
    \/ ClickApplyCrop
    \/ Respond

Spec == Init /\ [][Next]_vars

---------------------------------------------------------------------------
(* Persistence: the debounce timeout, saveData and the page reload.  A run   *)
(* starts either at construction or in a session already edited to n         *)
(* entries (reached from construction by an upload and n - 1 commits).       *)

Session(n, c) ==
    [InitialApp EXCEPT !.history = [k \in 1..n |-> NewFile(k)], !.historyIndex = c,
                       !.isLoading = FALSE]

PersistInit ==
    \/ Init
    \/ /\ \E n \in 1..MaxLen, c \in 0..(MaxLen - 1) :
            /\ c < n
            /\ history = Session(n, c).history
            /\ historyIndex = Session(n, c).historyIndex
            /\ nextId = n + 1
       /\ prompt = InitialApp.prompt
       /\ isLoading = FALSE
       /\ error = InitialApp.error
       /\ editHotspot = InitialApp.editHotspot
       /\ activeTab = InitialApp.activeTab
       /\ completedCrop = InitialApp.completedCrop
       /\ referenceImage = InitialApp.referenceImage
       /\ isStyleLocked = InitialApp.isStyleLocked
       /\ designSeed = InitialApp.designSeed
       /\ pending = <<>>
       /\ mounted = TRUE
       /\ storage = NoRecord
       /\ timer = DelayTicks
       /\ saves = <<>>
       /\ uncaught = FALSE
       /\ urls = NoUrls
       /\ lastOp = "session"

\* time passes while the timeout is armed and not yet due
Tick ==
    /\ mounted /\ timer > 0
    /\ timer' = timer - 1
    /\ lastOp' = "tick"
    /\ UNCHANGED <<appVars, pending, nextId, mounted, storage, saves, uncaught, urls>>

\* Faulty variant: saveData without the test of history.length.
TimerFires_WritesEmpty ==
    /\ mounted /\ timer = 0
    /\ timer' = NoTimer
    /\ Len(saves) < MaxSaves
    /\ saves' = Append(saves, SaveJob(App))
    /\ storage' = storage
    /\ lastOp' = "save"
    /\ UNCHANGED <<appVars, pending, nextId, mounted, uncaught, urls>>

\* Faulty variant: saveData cuts the live history to the saved window.
TimerFires_TruncatesLive ==
    /\ mounted /\ timer = 0
    /\ timer' = NoTimer
    /\ IF Len(history) > 0
       THEN /\ Len(saves) < MaxSaves
            /\ saves' = Append(saves, SaveJob(App))
            /\ storage' = storage
            /\ lastOp' = "save"
       ELSE /\ saves' = saves
            /\ storage' = NoRecord
            /\ lastOp' = "remove"
    /\ history' = historyToSave(history)
    /\ historyIndex' = IF Len(history) > 0 THEN historyIndexToSave(history, historyIndex)
                       ELSE historyIndex
    /\ UNCHANGED <<prompt, isLoading, error, editHotspot, activeTab, completedCrop,
                   referenceImage, isStyleLocked, designSeed>>
    /\ UNCHANGED <<pending, nextId, mounted, uncaught, urls>>

\* the timeout of the auto-save effect fires and saveData runs up to its await
\* (or, for an empty history, to its end)
TimerFires ==
    /\ mounted /\ timer = 0
    /\ timer' = NoTimer
    /\ IF Len(history) > 0
       THEN /\ Len(saves) < MaxSaves
            /\ saves' = Append(saves, SaveJob(App))
            /\ storage' = storage
            /\ lastOp' = "save"
       ELSE /\ saves' = saves
            /\ storage' = NoRecord
            /\ lastOp' = "remove"
    /\ UNCHANGED <<appVars, pending, nextId, mounted, uncaught, urls>>

SaveOp(outcome) ==
    CASE outcome = "written" -> "saved"
      [] outcome = "quota exceeded" -> "quota"
      [] OTHER -> "save failed"

\* a saveData call resumes after its await and runs to its end
SaveEnds ==
    /\ \E k \in 1..Len(saves), outcome \in SaveOutcomes :
          /\ storage' = saveDataEnd(storage, saves[k], outcome)
          /\ saves' = Without(saves, k)
          /\ uncaught' = (uncaught \/ saveDataRejects(outcome))
          /\ lastOp' = SaveOp(outcome)
    /\ UNCHANGED <<appVars, pending, nextId, mounted, timer, urls>>

\* the page is reloaded: only the stored item survives
Reload ==
    /\ mounted
    /\ SetApp(InitialApp)
    /\ pending' = <<>>
    /\ nextId' = 1
    /\ mounted' = FALSE
    /\ timer' = NoTimer
    /\ saves' = <<>>
    /\ uncaught' = FALSE
    /\ lastOp' = "reload"
    /\ UNCHANGED <<storage, urls>>

PersistNext ==
    \/ Mount
    \/ Reload
    \/ ClickUploadNew
    \/ ClickUndo
    \/ ClickRedo
    \/ Tick
    \/ TimerFires
    \/ SaveEnds

PersistSpec == PersistInit /\ [][PersistNext]_vars

---------------------------------------------------------------------------
(* The debounce timeout under changes of history, cursor, prompt and tab,    *)
(* from the construction of the component, up to the start of each save.     *)

DebounceNext ==
    \/ Mount
    \/ ClickUploadNew
    \/ ClickUndo
    \/ ClickRedo
    \/ handleImageClick
    \/ ClickTab
    \/ TypePrompt
    \/ Tick
    \/ TimerFires

DebounceSpec == Init /\ [][DebounceNext]_vars

---------------------------------------------------------------------------
(* Edit Orchestrator: all six kinds of request, the Design panel included.   *)
(* A run starts in a session with one uploaded picture.                      *)

OrchInit ==
    /\ history = Session(1, 0).history
    /\ historyIndex = Session(1, 0).historyIndex
    /\ prompt = InitialApp.prompt
    /\ isLoading = FALSE
    /\ error = InitialApp.error
    /\ editHotspot = InitialApp.editHotspot
    /\ activeTab = InitialApp.activeTab
    /\ completedCrop = InitialApp.completedCrop
    /\ referenceImage = InitialApp.referenceImage
    /\ isStyleLocked = InitialApp.isStyleLocked
    /\ designSeed = InitialApp.designSeed
    /\ pending = <<>>
    /\ nextId = 2
    /\ mounted = TRUE
    /\ storage = NoRecord
    /\ timer = DelayTicks
    /\ saves = <<>>
    /\ uncaught = FALSE
    /\ urls = NoUrls
    /\ lastOp = "session"

OrchNext ==
    \/ handleFileSelect
    \/ ClickUploadNew
    \/ handleImageClick
    \/ ClickTab
    \/ TypePrompt
    \/ ChooseReference
    \/ ToggleStyleLock
    \/ TryAgain
    \/ SubmitRetouch
    \/ SubmitTryOn
    \/ SubmitStyle
    \/ SubmitPersona
    \/ SubmitAdjustment
    \/ SubmitFilter
    \/ SelectCrop
    \/ ClickApplyCrop
    \/ Respond

OrchSpec == OrchInit /\ [][OrchNext]_vars

---------------------------------------------------------------------------
(* The Edit Orchestrator with a generation service that answers: every call  *)
(* awaited by a handler is eventually resolved or rejected.                  *)

LiveSpec == OrchInit /\ [][OrchNext]_vars /\ WF_vars(Respond)

---------------------------------------------------------------------------
(* Object URLs.  The effects of a render run after it is committed and before *)
(* the next render, so between a change of state and the run of the effects  *)
(* the URLs are those of the state before.                                   *)

\* the effects have run for the state as it is
Flushed == urls.src = UrlDeps(App)

UrlEffects ==
    /\ mounted /\ ~Flushed
    /\ Len(urls.owner) + Len(UrlsToCreate(urls, App)) <= MaxUrls
    /\ urls' = RunUrlEffects(urls, App)
    /\ lastOp' = "effects"
    /\ UNCHANGED <<appVars, pending, nextId, mounted, storage, timer, saves, uncaught>>

\* the component is torn down: the cleanup of every effect runs
Unmount ==
    /\ mounted /\ Flushed
    /\ SetApp(InitialApp)
    /\ urls' = TeardownUrls(urls)
    /\ pending' = <<>>
    /\ nextId' = 1
    /\ mounted' = FALSE
    /\ timer' = NoTimer
    /\ saves' = <<>>
    /\ uncaught' = FALSE
    /\ lastOp' = "unmount"
    /\ UNCHANGED storage

UrlNext ==
    \/ UrlEffects
    \/ Unmount
    \/ Flushed /\ Mount
    \/ Flushed /\ handleFileSelect
    \/ Flushed /\ ClickUploadNew
    \/ Flushed /\ ClickUndo
    \/ Flushed /\ ClickRedo
    \/ Flushed /\ ClickTab
    \/ Flushed /\ ChooseReference
    \/ Flushed /\ SelectCrop
    \/ Flushed /\ ClickApplyCrop

UrlSpec == Init /\ [][UrlNext]_vars

---------------------------------------------------------------------------
(* Properties of the Edit History Store *)

\* the cursor is an index of the history
ValidCursor == 0 <= historyIndex /\ historyIndex < Len(history)
CursorOk == Len(history) > 0 => ValidCursor

\* s is a history with a cursor in it, or the empty history
WellFormed(s) ==
    \/ Len(s.history) = 0 /\ s.historyIndex = -1
    \/ 0 <= s.historyIndex /\ s.historyIndex < Len(s.history)

RECURSIVE Undos(_, _)
Undos(s, k) == IF k = 0 THEN s ELSE Undos(handleUndo(s), k - 1)
RECURSIVE Redos(_, _)
Redos(s, k) == IF k = 0 THEN s ELSE Redos(handleRedo(s), k - 1)

\* C1: an upload leaves a cursor inside the history, and from a state whose cursor
\* is inside a non-empty history every commit, undo and redo (and every other
\* handler) leaves the cursor inside the history whenever the history is
\* non-empty.
C1_CursorStaysInRange ==
    [][ /\ lastOp' = "load" => (Len(history') > 0 /\ ValidCursor')
        /\ (CursorOk /\ lastOp' # "restore") => CursorOk' ]_vars

C1_Witness ==
    /\ lastOp = "undo" /\ Len(history) = 3 /\ historyIndex = 0
    /\ history[1] = NewFile(1) /\ history[3] = NewFile(4)

\* C2: in every state, also right after the restore of a stored record that
\* parses as JSON, the history is empty or the cursor is an index of it.
C2_CurrentNeverAbsent == Len(history) = 0 \/ ValidCursor

\* C3: a commit performed when the history is e and the cursor is c leaves
\* e[0..c] followed by the new picture, and the cursor on it (c + 1).
C3_CommitTruncatesAtCursor ==
    [][ lastOp' = "commit" =>
          /\ history' = Append(JsSlice(history, 0, historyIndex + 1), NewFile(nextId))
          /\ historyIndex' = historyIndex + 1 ]_vars

\* C4: undo changes nothing at cursor 0 or on an empty history and otherwise
\* moves the cursor back by exactly 1; redo changes nothing at the last entry and
\* otherwise moves it forward by exactly 1; neither changes the entries; from
\* cursor c of n entries exactly c undos and n - 1 - c redos take effect.
UndoRedoContract(s) ==
    LET c == s.historyIndex
        n == Len(s.history)
    IN /\ handleUndo(s) = (IF c <= 0 THEN s
                           ELSE [s EXCEPT !.historyIndex = c - 1,
                                          !.editHotspot = NoHotspot,
                                          !.completedCrop = FALSE])
       /\ handleRedo(s) = (IF c >= n - 1 THEN s
                           ELSE [s EXCEPT !.historyIndex = c + 1,
                                          !.editHotspot = NoHotspot,
                                          !.completedCrop = FALSE])
       /\ n > 0 =>
            /\ \A j \in 0..c : Undos(s, j).historyIndex = c - j
            /\ Undos(s, c + 1) = Undos(s, c)
            /\ \A j \in 0..(n - 1 - c) : Redos(s, j).historyIndex = c + j
            /\ Redos(s, n - c) = Redos(s, n - 1 - c)

C4_UndoRedoByOne ==
    [][ /\ WellFormed(App) => UndoRedoContract(App)
        /\ lastOp' = "undo" => (historyIndex' = historyIndex - 1 /\ history' = history)
        /\ lastOp' = "redo" => (historyIndex' = historyIndex + 1 /\ history' = history)
      ]_vars

C4_Witness ==
    /\ lastOp = "redo" /\ Len(history) = 3 /\ historyIndex = 2
    /\ ~canRedo(App) /\ canUndo(App)

\* C5: reset on a non-empty history puts the cursor on 0 and leaves the entries
\* as they are, so that every later entry is still reached by redo; on an empty
\* history it changes nothing.
ResetContract(s) ==
    LET n == Len(s.history)
        r == handleReset(s)
    IN IF n = 0 THEN r = s
       ELSE /\ r.historyIndex = 0
            /\ r.history = s.history
            /\ \A j \in 0..(n - 1) : /\ Redos(r, j).historyIndex = j
                                     /\ currentImageOf(Redos(r, j)) = s.history[j + 1]

C5_ResetKeepsEntries ==
    [][ /\ ResetContract(App)
        /\ lastOp' = "reset" => (historyIndex' = 0 /\ history' = history)
      ]_vars

C5_Witness ==
    /\ lastOp = "reset" /\ Len(history) = 3 /\ historyIndex = 0 /\ canRedo(App)

\* C6: a history-step click on an index of the history puts the cursor there and
\* leaves the entries as they are; on any other index it leaves cursor, entries
\* and hotspot as they are.
JumpContract(s) ==
    \A index \in -2..(Len(s.history) + 2) :
        LET r == handleHistoryStepClick(s, index) IN
        IF 0 <= index /\ index < Len(s.history)
        THEN r.historyIndex = index /\ r.history = s.history
        ELSE /\ r.historyIndex = s.historyIndex
             /\ r.history = s.history
             /\ r.editHotspot = s.editHotspot

C6_JumpInRangeOnly ==
    [][ /\ JumpContract(App)
        /\ lastOp' = "jump" =>
             /\ history' = history
             /\ 0 <= historyIndex' /\ historyIndex' < Len(history)
      ]_vars

C6_Witness ==
    /\ lastOp = "jump" /\ Len(history) = 3 /\ historyIndex = 1
    /\ editHotspot = NoHotspot

\* C7: an upload leaves the history [initial] with cursor 0, and Upload New leaves
\* the empty history with cursor -1, whatever the state before.
C7_LoadAndClear ==
    [][ /\ \A f \in {NewFile(nextId)} :
              /\ handleImageUpload(App, f).history = <<f>>
              /\ handleImageUpload(App, f).historyIndex = 0
        /\ handleUploadNew(App).history = <<>>
        /\ handleUploadNew(App).historyIndex = -1
        /\ lastOp' = "load" => (history' = <<NewFile(nextId)>> /\ historyIndex' = 0)
        /\ lastOp' = "clear" => (history' = <<>> /\ historyIndex' = -1)
      ]_vars

C7_Witness ==
    /\ lastOp = "load" /\ history = <<NewFile(3)>> /\ historyIndex = 0

\* C8: from an upload to the next upload or Upload New, whatever commits, undos,
\* redos, history-step clicks and resets happen, the history is non-empty and its
\* first entry is the uploaded picture.
C8_OriginalStays ==
    [][ /\ lastOp' = "load" => originalImage' = NewFile(nextId)
        /\ (Len(history) > 0 /\ lastOp' \notin {"load", "clear", "restore"}) =>
              (Len(history') > 0 /\ originalImage' = originalImage)
      ]_vars

C8_Witness ==
    /\ lastOp = "commit" /\ history = <<NewFile(1), NewFile(4)>>
    /\ originalImage = NewFile(1)

---------------------------------------------------------------------------
(* Properties of the Session Persistence *)

\* the entries a save of history h keeps: the last min(n, 5), in their order
LastFive(h) == [k \in 1..Min(Len(h), 5) |-> h[Len(h) - Min(Len(h), 5) + k]]
\* the cursor a save of n entries with cursor c writes
SavedCursor(n, c) == Max(0, c - Max(0, n - 5))

\* C9: a save of n entries with cursor c holds the last min(n, 5) entries in their
\* order and the cursor max(0, c - max(0, n - 5)); what it writes is the thumbnails
\* of these entries, in order, with that cursor; and restoring a written record
\* yields as many entries as the record has thumbnails, each the decoded
\* thumbnail, with the record's cursor.
C9_SaveKeepsLastFive ==
    [][ /\ lastOp' = "save" =>
             LET job == saves'[Len(saves')] IN
             /\ Len(saves') = Len(saves) + 1
             /\ job.history = LastFive(history)
             /\ job.historyIndex = SavedCursor(Len(history), historyIndex)
        /\ lastOp' = "saved" =>
             \E k \in 1..Len(saves) :
                /\ storage'.kind = "json" /\ storage'.hasHistory /\ storage'.hasIndex
                /\ Len(storage'.history) = Len(saves[k].history)
                /\ \A j \in 1..Len(saves[k].history) :
                      storage'.history[j] = createImageThumbnail(saves[k].history[j])
                /\ storage'.historyIndex = saves[k].historyIndex
        /\ (lastOp' = "restore" /\ storage.kind = "json" /\ storage.hasHistory
               /\ storage.hasIndex /\ ~restoreThrows(storage)) =>
             /\ Len(history') = Len(storage.history)
             /\ \A j \in 1..Len(history') : history'[j] = dataURLtoFile(storage.history[j])
             /\ historyIndex' = storage.historyIndex
        /\ Len(history) > 0 =>
             LET r == restoreApp(InitialApp, saveDataEnd(storage, SaveJob(App), "written")) IN
             /\ Len(r.history) = Min(Len(history), 5)
             /\ \A j \in 1..Len(r.history) :
                   r.history[j].img = history[Len(history) - Len(r.history) + j].img
             /\ r.historyIndex = SavedCursor(Len(history), historyIndex)
      ]_vars

C9_Witness ==
    /\ lastOp = "restore" /\ Len(history) = 5 /\ historyIndex = 0
    /\ history[1] = [img |-> 3, thumb |-> TRUE]
    /\ history[5] = [img |-> 7, thumb |-> TRUE]
    /\ storage.historyIndex = 0

\* C10: when the write of a save fails because the quota is exceeded, the stored
\* record is removed, nothing is thrown out of saveData, and history, cursor and
\* error (and the rest of the application state) stay as they are.
C10_QuotaRemovesRecord ==
    [][ lastOp' = "quota" =>
          /\ storage' = NoRecord
          /\ ~uncaught'
          /\ \A outcome \in {"quota exceeded"} : ~saveDataRejects(outcome)
          /\ UNCHANGED appVars ]_vars

C10_Witness ==
    /\ lastOp = "quota" /\ storage = NoRecord /\ Len(history) > 0 /\ ~uncaught
    /\ error = Null

\* the item holds nothing, something JSON.parse throws on, or a record with an
\* entry dataURLtoFile throws on
Unrestorable(rec) == rec.kind \in {"none", "garbage"} \/ restoreThrows(rec)

\* C11: the restore from an item that is absent, does not parse or has an entry
\* that does not decode throws nothing and sets no error: it leaves the empty
\* history with cursor -1, none of the record's entries restored, and the loading
\* flag cleared.
C11_RestoreFailsToColdStart ==
    [][ (lastOp' = "restore" /\ Unrestorable(storage)) =>
          /\ history' = <<>> /\ historyIndex' = -1
          /\ error' = Null /\ ~isLoading'
          /\ prompt' = "" /\ activeTab' = "retouch"
          /\ ~uncaught' /\ ~restoreEscapes(storage) ]_vars

C11_Witness ==
    /\ lastOp = "restore" /\ history = <<>> /\ historyIndex = -1
    /\ storage = NoRecord /\ ~isLoading /\ error = Null /\ mounted

---------------------------------------------------------------------------
(* Properties of the Edit Orchestrator *)

\* the generation calls in flight
InFlight == Len(pending)

\* a step during which the same requests stay pending
StaysPending == pending # <<>> /\ pending' = pending

\* C12: at most one generation call is in flight: while a request is pending the
\* loading flag is set, no step is a submission of any kind (a crop included)
\* and no request is added to the pending ones; a call starts only from the idle
\* state.
C12_OneRequestInFlight ==
    [][ /\ InFlight' <= 1
        /\ pending # <<>> => isLoading
        /\ lastOp' = "submit" => (pending = <<>> /\ ~isLoading /\ InFlight' = 1)
        /\ (pending # <<>> /\ lastOp' \in {"submit", "rejected", "commit"}) =>
              (lastOp' = "commit" /\ pending' = <<>>)
      ]_vars

C12_Witness ==
    /\ InFlight = 1 /\ isLoading /\ pending[1].kind = "style"
    /\ Editor /\ activeTab = "design" /\ referenceImage # NoFile

\* C13: while a request is pending, from its submission to the collaborator's
\* answer, no step changes the history entries or the cursor.
C13_NoMutationWhilePending ==
    [][ StaysPending => (history' = history /\ historyIndex' = historyIndex) ]_vars

\* the generation call answered by resp fails, or returns an image that does not decode
Fails(resp) ==
    LET r == generate(resp, NewFile(nextId)) IN ~r.ok \/ dataURLtoFileThrows(r.url)

\* C14: when the generation call fails (rejected, blocked, no image, abnormal
\* stop without an image) or its image does not decode, the handler leaves the
\* entries and the cursor as they are, sets the error message of its kind, clears
\* the loading flag and starts no further call.
C14_FailureLeavesHistory ==
    [][ lastOp' = "failed" =>
          /\ history' = history /\ historyIndex' = historyIndex
          /\ error' # Null /\ ~isLoading'
          /\ \E k \in 1..Len(pending) : /\ error'[1] = FailurePrefix(pending[k].kind)
                                        /\ pending' = Without(pending, k)
          /\ InFlight' = InFlight - 1 /\ nextId' = nextId
          /\ \A resp \in Responses :
               (resp.rejected \/ resp.blockReason \/ resp.image # "valid") => Fails(resp)
      ]_vars

C14_Witness ==
    /\ lastOp = "failed" /\ pending = <<>> /\ ~isLoading
    /\ error = <<"Failed to apply the style.", "undecodable image">>
    /\ Len(history) = 2 /\ historyIndex = 1

\* t is s with an error message set and nothing else changed: no call started,
\* history, cursor, loading flag, hotspot and stored seed as in s
Rejected(s, t) == t.error # Null /\ t = [s EXCEPT !.error = t.error]

\* what each handler does with the state s, by the preconditions s lacks
GuardContract(s) ==
    LET noImage == currentImageOf(s) = NoFile
        retouch == handleGenerate(s)
        tryOn == handleApplyTryOn(s)
        style == handleApplyStyle(s, 1)
    IN /\ IF noImage \/ Trim(s.prompt) = "" \/ s.editHotspot = NoHotspot
          THEN Rejected(s, retouch) ELSE Started(s, retouch)
       /\ IF noImage \/ s.editHotspot = NoHotspot
          THEN Rejected(s, tryOn) ELSE Started(s, tryOn)
       /\ IF noImage \/ s.referenceImage = NoFile
          THEN Rejected(s, style) ELSE Started(s, style)
       /\ \A t \in {handleApplyFilter(s), handleApplyAdjustment(s), handleGeneratePersona(s)} :
             IF noImage THEN Rejected(s, t) ELSE Started(s, t)

\* a state that lacks nothing, and the states that lack exactly one precondition
Complete ==
    [App EXCEPT !.history = <<NewFile(1)>>, !.historyIndex = 0, !.prompt = "fix",
                !.editHotspot = "h1", !.referenceImage = [img |-> 101, thumb |-> FALSE]]
NoImageLoaded == [Complete EXCEPT !.history = <<>>, !.historyIndex = -1]
NoPrompt == [Complete EXCEPT !.prompt = ""]
BlankPrompt == [Complete EXCEPT !.prompt = " "]
NoHotspotSelected == [Complete EXCEPT !.editHotspot = NoHotspot]
NoReference == [Complete EXCEPT !.referenceImage = NoFile]

\* C15: a handler called with a precondition missing (retouch: blank prompt or no
\* hotspot; try-on: no hotspot; style: no reference image; any kind: no current
\* image) sets an error and changes nothing else, so no call is started and
\* history, cursor, loading flag, hotspot and stored seed stay; and one kind's
\* messages for different missing preconditions differ.
C15_MissingPreconditionRejected ==
    [][ /\ GuardContract(App)
        /\ lastOp' = "rejected" => (pending' = pending /\ history' = history
                                    /\ historyIndex' = historyIndex)
        /\ lastOp' \in {"submit", "rejected"} =>
             /\ \A s \in {Complete, NoImageLoaded, NoPrompt, BlankPrompt, NoHotspotSelected,
                          NoReference} : GuardContract(s)
             /\ handleGenerate(BlankPrompt).error = handleGenerate(NoPrompt).error
             /\ Cardinality({handleGenerate(NoImageLoaded).error,
                             handleGenerate(NoPrompt).error,
                             handleGenerate(NoHotspotSelected).error}) = 3
             /\ handleApplyTryOn(NoImageLoaded).error
                  # handleApplyTryOn(NoHotspotSelected).error
             /\ handleApplyStyle(NoImageLoaded, 1).error
                  # handleApplyStyle(NoReference, 1).error
      ]_vars

C15_Witness ==
    /\ Editor /\ isStyleLocked /\ designSeed = 1 /\ ~isLoading
    /\ activeTab = "retouch" /\ editHotspot # NoHotspot /\ Trim(prompt) = ""
    /\ handleGenerate(App).error = <<"Please enter a description for your edit.">>
    /\ handleGenerate(App).designSeed = 1 /\ ~handleGenerate(App).isLoading

\* a step in which a style request is submitted with the style locked
LockedStyleSubmit ==
    /\ lastOp' = "submit" /\ pending = <<>> /\ pending'[1].kind = "style"
    /\ isStyleLocked

\* C16: a locked style request that follows a locked style request, with no change
\* of the reference image, unlocked request, upload or clear in between (the
\* stored seed is the one the earlier request generated), passes that same seed
\* to the generation call and generates none, whatever seed in 0 .. 999,999,999
\* was generated.
C16_LockedSeedReused ==
    [][ (LockedStyleSubmit /\ designSeed # NoSeed) =>
           /\ designSeed \in 0..(SEED_RANGE - 1)
           /\ pending'[1].seed = designSeed
           /\ configSeed(pending'[1].seed) = configSeed(designSeed)
           /\ designSeed' = designSeed ]_vars

\* C17: every change of the reference image (by the Design panel or by an upload,
\* which resets it) leaves no stored seed, and a locked style request that finds
\* no stored seed generates one, stores it and passes it.
C17_ReferenceChangeClearsSeed ==
    [][ /\ \A f \in RefImages \cup {NoFile} :
              handleSetReferenceImage(App, f).designSeed = NoSeed
        /\ handleImageUpload(App, NewFile(nextId)).designSeed = NoSeed
        /\ referenceImage' # referenceImage => designSeed' = NoSeed
        /\ lastOp' \in {"reference", "load"} => designSeed' = NoSeed
        /\ (LockedStyleSubmit /\ designSeed = NoSeed) =>
              /\ designSeed' \in SeedSamples
              /\ pending'[1].seed = designSeed'
      ]_vars

C17_Witness ==
    /\ lastOp = "reference" /\ designSeed = NoSeed /\ isStyleLocked
    /\ referenceImage = [img |-> 102, thumb |-> FALSE]
    /\ InFlight = 1 /\ pending[1].kind = "style" /\ pending[1].seed = 1

\* a step in which a pending request is answered with an image that is committed
AnsweredCommit == lastOp' = "commit" /\ InFlight' = InFlight - 1

\* C20: the commit of an answered request is applied to the history and cursor
\* of the moment of the answer: it leaves history[0..cursor] of that moment
\* followed by the new picture, so what was undone, jumped, reset or cleared
\* while the request was pending stays so, and a history cleared meanwhile holds
\* the new picture only.
C20_CommitAtCompletion ==
    [][ AnsweredCommit =>
          /\ \A j \in 1..Min(historyIndex + 1, Len(history)) : history'[j] = history[j]
          /\ Len(history') = Min(historyIndex + 1, Len(history)) + 1
          /\ history'[Len(history')] = NewFile(nextId)
          /\ historyIndex' = Len(history') - 1
          /\ Len(history) = 0 => history' = <<NewFile(nextId)>>
      ]_vars

---------------------------------------------------------------------------
(* Properties of the debounced auto-save *)

\* a step that changes what saveData depends on
Changed ==
    \/ history' # history \/ historyIndex' # historyIndex
    \/ prompt' # prompt \/ activeTab' # activeTab

\* C18: every change of history, cursor, prompt or tab replaces the armed timeout
\* by one with the full delay; the timeout only counts down while nothing
\* changes; a save starts only when the timeout is due, uses it up, and saves the
\* state as it then is, which is the state of the last change; with no timeout
\* armed and no change none gets armed, so a burst of changes starts one save.
C18_Debounce ==
    [][ /\ Changed => timer' = DelayTicks
        /\ lastOp' \in {"save", "remove"} =>
              (timer = 0 /\ timer' = NoTimer /\ UNCHANGED appVars)
        /\ lastOp' = "save" => saves' = Append(saves, SaveJob(App))
        /\ lastOp' \notin {"save", "remove"} => saves' = saves
        /\ (timer' # timer /\ timer' \in 0..(DelayTicks - 1)) =>
              (timer' = timer - 1 /\ ~Changed)
        /\ (timer = NoTimer /\ ~Changed /\ lastOp' \notin {"restore", "clear"}) =>
              timer' = NoTimer
      ]_vars

C18_Witness ==
    /\ lastOp = "save" /\ timer = NoTimer /\ Len(saves) = 1
    /\ historyIndex = 0 /\ activeTab = "adjust" /\ prompt = ""
    /\ saves[1].historyIndex = 0 /\ saves[1].activeTab = "adjust" /\ saves[1].prompt = ""
    /\ Len(saves[1].history) = 2

\* C19: a save that runs while the history is empty removes the stored record and
\* writes nothing; a save starts its thumbnails only for a
\* non-empty history, and a record a save writes has at least one entry.
C19_EmptyHistoryRemovesRecord ==
    [][ /\ (lastOp' \in {"save", "remove"} /\ Len(history) = 0) =>
              (lastOp' = "remove" /\ storage' = NoRecord /\ saves' = saves)
        /\ lastOp' = "remove" => Len(history) = 0
        /\ lastOp' = "save" => Len(saves'[Len(saves')].history) > 0
        /\ lastOp' = "saved" => (storage'.kind = "json" /\ Len(storage'.history) > 0)
      ]_vars

C19_Witness ==
    /\ lastOp = "remove" /\ storage = NoRecord /\ history = <<>> /\ historyIndex = -1
    /\ timer = NoTimer /\ saves = <<>>

---------------------------------------------------------------------------
(* Termination of a request *)

\* no call is awaited and the loading flag is clear
Idle == pending = <<>> /\ ~isLoading

\* C21: when every generation call is eventually answered, every started request
\* leaves the pending state: the answer, whether it is an image, a failure or an
\* image that does not decode, clears the loading flag and leaves no call
\* awaited, so the submit controls are enabled again.
C21_RequestLeavesPending ==
    /\ [][ lastOp' \in {"commit", "failed"} => Idle' ]_vars
    /\ (pending # <<>>) ~> Idle

C21_Witness ==
    /\ lastOp = "failed" /\ Idle
    /\ error = <<"Failed to generate the persona image.", "undecodable image">>
    /\ Len(history) = 1

---------------------------------------------------------------------------
(* The selected hotspot *)

\* a step in which the one pending request, a retouch or a try-on, is answered
AnsweredSelection == pending # <<>> /\ pending' = <<>> /\ ClearsHotspot(pending[1].kind)

\* C22: the answer of a retouch or try-on request with an image clears the
\* hotspot; undo, redo, reset and a history-step click clear it; a failed retouch
\* or try-on request leaves the hotspot as it is, and with the hotspot still
\* selected the same handler, called again once the error is dismissed, starts a
\* call.
C22_HotspotClearedOnSuccessOnly ==
    [][ /\ (AnsweredSelection /\ lastOp' = "commit") => editHotspot' = NoHotspot
        /\ lastOp' \in {"undo", "redo", "reset", "jump"} => editHotspot' = NoHotspot
        /\ lastOp' = "failed" => editHotspot' = editHotspot
        /\ (AnsweredSelection /\ lastOp' = "failed" /\ editHotspot # NoHotspot) =>
              LET s == [App EXCEPT !.isLoading = FALSE] IN
              IF pending[1].kind = "retouch" THEN Started(s, handleGenerate(s))
              ELSE Started(s, handleApplyTryOn(s))
      ]_vars

C22_Witness ==
    /\ lastOp = "failed" /\ editHotspot = "h1" /\ activeTab = "try-on"
    /\ pending = <<>> /\ error # Null

---------------------------------------------------------------------------
(* The classification of a response *)

\* the outcome of handleApiResponse by the precedence block reason, image part,
\* finish reason, no image
Classified(resp, r) ==
    IF resp.blockReason THEN r = Thrown("blocked")
    ELSE IF resp.image # "none"
         THEN r.ok /\ r.url = (IF resp.image = "valid" THEN DataUrl(NewFile(nextId)) ELSE BadUrl)
    ELSE IF resp.finishReason \notin {"", "STOP"} THEN r = Thrown("abnormal-stop")
    ELSE r = Thrown(IF resp.text THEN "no-image, with the model's text" ELSE "no-image")

\* C23: handleApiResponse gives every response one outcome: blocked when the
\* prompt feedback has a block reason, an image part or not; otherwise the image
\* when the first candidate has an image part, whatever the finish reason;
\* otherwise the abnormal stop when the finish reason is neither absent nor STOP;
\* otherwise no image, with the model's text when there is one.  The error a
\* failed request shows is one of these outcomes (or the failure of the call or
\* of the decoding).
C23_ResponsePrecedence ==
    [][ lastOp' \in {"commit", "failed"} =>
          /\ \A resp \in Responses :
                ~resp.rejected => Classified(resp, handleApiResponse(resp, NewFile(nextId)))
          /\ (lastOp' = "failed" /\ pending' # pending) =>
                error'[2] \in {"call failed", "blocked", "abnormal-stop", "no-image",
                               "no-image, with the model's text", "undecodable image"}
      ]_vars

C23_Witness ==
    /\ lastOp = "failed" /\ pending = <<>>
    /\ error = <<"Failed to apply the filter.", "abnormal-stop">>

---------------------------------------------------------------------------
(* The order of the saves *)

\* no timeout is armed and no saveData call awaits its thumbnails
Quiescent == mounted /\ timer = NoTimer /\ saves = <<>>

\* what the item holds when it corresponds to the state
FinalRecord == IF Len(history) = 0 THEN NoRecord ELSE stateToSave(SaveJob(App))

\* C24: with no timeout armed (the last save or delete was started for the state
\* as it is), a record that corresponds to the state is not replaced by the write
\* of a save started earlier; and once no timeout is armed and no save awaits its
\* thumbnails, an empty history has no stored record.
C24_NoStaleWrite ==
    /\ [][ (mounted /\ timer = NoTimer /\ storage = FinalRecord /\ lastOp' = "saved") =>
              storage' = FinalRecord' ]_vars
    /\ [](Quiescent /\ Len(history) = 0 => storage = NoRecord)

---------------------------------------------------------------------------
(* What a save leaves alone *)

\* a step of saveData: its start, the removal for an empty history, and its end
\* with the record written, with the quota exceeded or with another failure
SaveStep == lastOp' \in {"save", "remove", "saved", "quota", "save failed"}

\* C25: no step of saveData changes the state of the component: entries, cursor,
\* prompt, tab, loading flag and error are after it what they were before it,
\* when the record is written and when the thumbnails or the write fail, and
\* nothing is thrown; the entries before the saved window stay in the history.
C25_SaveLeavesLiveState ==
    [][ SaveStep =>
          /\ UNCHANGED appVars
          /\ Len(history') = Len(history)
          /\ uncaught' = uncaught
          /\ \A outcome \in SaveOutcomes : ~saveDataRejects(outcome)
      ]_vars

C25_Witness ==
    /\ lastOp = "save failed" /\ Len(history) = 7 /\ historyIndex = 6
    /\ history[1] = NewFile(1) /\ error = Null /\ ~isLoading /\ ~uncaught

---------------------------------------------------------------------------
(* The restore at startup *)

\* the item holds a record the restore effect loads entries from
Loadable(rec) ==
    rec.kind = "json" /\ rec.hasHistory /\ ~restoreThrows(rec) /\ Len(rec.history) > 0

\* the state is the one the restore effect left from the item as it is
AsRestored ==
    /\ mounted /\ Loadable(storage)
    /\ history = restoreApp(InitialApp, storage).history
    /\ historyIndex = restoreApp(InitialApp, storage).historyIndex

\* C26: the restore effect runs once per page load and first: before it no step
\* touches the item or the history, no timeout is armed and no save is under
\* way; it loads the record as it was at startup and leaves it in storage; the
\* timeout armed at mount, when it fires on the restored state, starts a save of
\* the restored history and removes nothing; the removal happens for an empty
\* history only.
C26_RestoreFirstAndOnce ==
    [][ /\ ~mounted => (lastOp' = "restore" /\ timer = NoTimer /\ saves = <<>>
                        /\ history = <<>>)
        /\ lastOp' = "restore" => (~mounted /\ mounted')
        /\ (mounted /\ mounted') => lastOp' # "restore"
        /\ (lastOp' = "restore" /\ Loadable(storage)) =>
              /\ storage' = storage /\ AsRestored' /\ timer' = DelayTicks
              /\ Len(history') = Len(storage.history)
        /\ (AsRestored /\ lastOp' \in {"save", "remove"}) =>
              /\ lastOp' = "save" /\ storage' = storage
              /\ saves'[Len(saves')] = SaveJob(restoreApp(InitialApp, storage))
        /\ lastOp' = "remove" => Len(history) = 0
      ]_vars

C26_Witness ==
    /\ lastOp = "saved" /\ storage = SavedRecord /\ AsRestored
    /\ Len(history) = 2 /\ historyIndex = 1 /\ saves = <<>>

---------------------------------------------------------------------------
(* The unlocked style request *)

\* a step in which a style request is submitted with the style not locked
UnlockedStyleSubmit ==
    /\ lastOp' = "submit" /\ pending = <<>> /\ pending'[1].kind = "style"
    /\ ~isStyleLocked

\* the state in which the lock is switched on after the request s started is answered
LockedAfter(s) == [s EXCEPT !.isLoading = FALSE, !.isStyleLocked = TRUE]

\* C27: a style request submitted with the lock off passes no seed, puts none in
\* the call's config and leaves no stored seed, whatever seed was stored before;
\* the locked request that follows it generates its seed, stores it and passes it.
C27_UnlockedClearsSeed ==
    [][ UnlockedStyleSubmit =>
          /\ pending'[1].seed = NoSeed
          /\ configSeed(pending'[1].seed) = NoSeed
          /\ designSeed' = NoSeed
          /\ \A old \in SeedSamples \cup {NoSeed}, new \in SeedSamples :
                LET s == [App EXCEPT !.designSeed = old]
                    t == LockedAfter(handleApplyStyle(s, new))
                IN /\ seedToUse(s, new) = NoSeed
                   /\ t.designSeed = NoSeed
                   /\ seedToUse(t, new) = new
                   /\ handleApplyStyle(t, new).designSeed = new
      ]_vars

C27_Witness ==
    /\ lastOp = "submit" /\ InFlight = 1 /\ pending[1].kind = "style"
    /\ pending[1].seed = NoSeed /\ ~isStyleLocked /\ designSeed = NoSeed
    /\ Len(history) = 2

---------------------------------------------------------------------------
(* Properties of the object URLs *)

\* the URLs an effect created and nothing revoked
Live(x) == {u \in 1..Len(urls.owner) : urls.owner[u] = x /\ u \notin urls.revoked}

\* For the current, the original and the reference image at most one URL is
\* created and not revoked; once the effects have run for the state, the URLs
\* created and not revoked are those of the present sources (every other one has
\* been revoked) and the URLs held in state are these; after the teardown none is
\* left.
UrlDiscipline ==
    /\ \A x \in {"cur", "orig", "ref"} : Cardinality(Live(x)) <= 1
    /\ Flushed =>
         /\ \A x \in {"cur", "orig", "ref"} :
               /\ Live(x) = {urls.made[x]} \ {NoUrl}
               /\ (urls.made[x] # NoUrl) = (UrlDeps(App)[x] # NoFile)
               /\ urls.state[x] = urls.made[x]
               /\ urls.state[x] \notin urls.revoked
         /\ Live("thumb") = Range(urls.made.thumbs)
         /\ urls.state.thumbs = urls.made.thumbs
         /\ Range(urls.state.thumbs) \cap urls.revoked = {}
    /\ ~mounted => \A x \in {"cur", "orig", "ref", "thumb"} : Live(x) = {}

---------------------------------------------------------------------------
(* The saved cursor *)

\* C29: a save started with the cursor on an entry of a non-empty history holds,
\* and writes, a cursor that is an index of the thumbnails it writes; when the
\* cursor is on an entry before the saved window, the saved cursor is 0.
C29_SavedCursorInWindow ==
    [][ (lastOp' = "save" /\ ValidCursor) =>
          LET job == saves'[Len(saves')]
              rec == stateToSave(job)
          IN /\ 0 <= job.historyIndex /\ job.historyIndex < Len(job.history)
             /\ rec.hasIndex /\ rec.historyIndex = job.historyIndex
             /\ 0 <= rec.historyIndex /\ rec.historyIndex < Len(rec.history)
             /\ historyIndex < truncatedCount(history) => rec.historyIndex = 0
             /\ historyIndex >= truncatedCount(history) =>
                   job.history[job.historyIndex + 1] = history[historyIndex + 1]
      ]_vars

C29_Witness ==
    /\ lastOp = "save" /\ Len(history) = 7 /\ historyIndex = 1
    /\ saves[Len(saves)].historyIndex = 0 /\ Len(saves[Len(saves)].history) = 5

---------------------------------------------------------------------------
(* Save after restore *)

\* rec has the shape of a record saveData writes: 1 to 5 thumbnails that decode
\* and a cursor that is not negative
SaveShaped(rec) ==
    /\ Loadable(rec) /\ rec.hasIndex
    /\ Len(rec.history) <= MAX_HISTORY_AUTOSAVE /\ rec.historyIndex >= 0

\* the record a save of the state restored from rec writes
SavedAgain(rec) == stateToSave(SaveJob(restoreApp(InitialApp, rec)))

\* C30: every record a save writes is restored and saved again, with no user
\* action between, to a record with as many thumbnails and the same cursor (and
\* the same prompt and tab); and a save that starts on the state restored from
\* such a record holds that many entries and that cursor.
C30_SaveAfterRestoreIdempotent ==
    [][ /\ lastOp' = "saved" =>
             /\ SaveShaped(storage')
             /\ Len(SavedAgain(storage').history) = Len(storage'.history)
             /\ SavedAgain(storage').historyIndex = storage'.historyIndex
             /\ SavedAgain(storage').prompt = storage'.prompt
             /\ SavedAgain(storage').activeTab = storage'.activeTab
        /\ (lastOp' = "save" /\ AsRestored /\ SaveShaped(storage)) =>
             LET job == saves'[Len(saves')] IN
             /\ Len(job.history) = Len(storage.history)
             /\ job.historyIndex = storage.historyIndex
      ]_vars

C30_Witness ==
    /\ lastOp = "saved" /\ AsRestored /\ Len(history) = 5 /\ history[1].thumb
    /\ Len(storage.history) = 5 /\ storage.historyIndex = historyIndex
    /\ historyIndex = 0

====
